---------------------------- MODULE Spec2Model ----------------------------
(***************************************************************************)
(* jobly: the partial-update SQL helper (sqlForPartialUpdate) and the      *)
(* company routes (routes/companies.js).                                   *)
(*                                                                         *)
(* JavaScript strings are sequences of one-character strings, so that the  *)
(* template literal, Array.prototype.join and the decimal rendering of the *)
(* placeholder index are computed character by character.  JavaScript      *)
(* values are records [t, s, n]: t is the type tag, s the characters of a  *)
(* string (or the source text of a function), n the magnitude of a number. *)
(* A JavaScript object is the sequence of its own properties in the order  *)
(* in which they were created (entries [key, value], keys distinct).       *)
(***************************************************************************)
EXTENDS Integers, Sequences, FiniteSets

VARIABLES
    dataToUpdate,   \* the object passed as first argument (own properties, creation order)
    jsToSql,        \* the object passed as second argument
    result,         \* result[c]: what caller c's call of sqlForPartialUpdate produced
    req,            \* the HTTP request handled by the companies router
    pc,             \* where that request is in the router
    events,         \* what has happened to the request, in order
    res,            \* the response sent for it
    err             \* the error the request ended with, and how it was delivered

helperVars == <<dataToUpdate, jsToSql, result>>
routeVars == <<req, pc, events, res, err>>
vars == <<dataToUpdate, jsToSql, result, req, pc, events, res, err>>

----------------------------------------------------------------------------
(* Bounds *)

\* Largest number of own properties of an update request.
MaxKeys == 2

----------------------------------------------------------------------------
(* JavaScript values and strings *)

Undefined == [t |-> "undefined", s |-> <<>>, n |-> 0]
NaN == [t |-> "NaN", s |-> <<>>, n |-> 0]
Str(chars) == [t |-> "string", s |-> chars, n |-> 0]
Num(k) == [t |-> "number", s |-> <<>>, n |-> k]
Fun(source) == [t |-> "function", s |-> source, n |-> 0]

DigitChars == <<"0", "1", "2", "3", "4", "5", "6", "7", "8", "9">>
IsDigit(ch) == \E d \in 1..10 : DigitChars[d] = ch
DigitValue(ch) == (CHOOSE d \in 1..10 : DigitChars[d] = ch) - 1

\* Number::toString for a non-negative integer.
RECURSIVE ToDecimal(_)
ToDecimal(k) ==
    IF k < 10 THEN <<DigitChars[k + 1]>>
    ELSE ToDecimal(k \div 10) \o <<DigitChars[(k % 10) + 1]>>

\* The number a string of decimal digits denotes.
RECURSIVE DecimalValue(_)
DecimalValue(chars) ==
    IF Len(chars) = 0 THEN 0
    ELSE 10 * DecimalValue(SubSeq(chars, 1, Len(chars) - 1)) + DigitValue(chars[Len(chars)])

AllDigits(chars) == Len(chars) > 0 /\ \A i \in 1..Len(chars) : IsDigit(chars[i])

\* ToBoolean: the empty string, 0, NaN and undefined are falsy.
ToBoolean(v) ==
    CASE v.t = "string" -> Len(v.s) > 0
      [] v.t = "number" -> v.n # 0
      [] v.t = "function" -> TRUE
      [] OTHER -> FALSE

\* ToString, as a template literal applies it to an interpolated value.
ToString(v) ==
    CASE v.t = "string" -> v.s
      [] v.t = "number" -> ToDecimal(v.n)
      [] v.t = "function" -> v.s
      [] v.t = "NaN" -> <<"N", "a", "N">>
      [] OTHER -> <<"u", "n", "d", "e", "f", "i", "n", "e", "d">>

\* a || b
LogicalOr(a, b) == IF ToBoolean(a) THEN a ELSE b

----------------------------------------------------------------------------
(* JavaScript objects *)

Entry(k, v) == [key |-> k, value |-> v]

HasOwnProperty(obj, k) == \E i \in 1..Len(obj) : obj[i].key = k
OwnProperty(obj, k) == obj[CHOOSE i \in 1..Len(obj) : obj[i].key = k].value

\* A property key that is an array index: a canonical decimal numeral.  Keys
\* of the model have at most nine digits, all below the 2^32 - 1 limit.
IsArrayIndex(k) ==
    /\ AllDigits(k)
    /\ Len(k) <= 9
    /\ (Len(k) = 1 \/ k[1] # "0")

\* The positions of obj in S, by ascending numeric value of their keys.
RECURSIVE AscendingIndices(_, _)
AscendingIndices(obj, S) ==
    IF S = {} THEN <<>>
    ELSE LET least == CHOOSE i \in S :
                 \A j \in S : DecimalValue(obj[i].key) <= DecimalValue(obj[j].key)
         IN <<least>> \o AscendingIndices(obj, S \ {least})

\* Fault variant: every key in the order of its creation.
OwnPropertyOrderAsCreated(obj) == [i \in 1..Len(obj) |-> i]

\* OrdinaryOwnPropertyKeys: the positions of the own properties in the order
\* every enumeration uses: array-index keys in ascending numeric order, then
\* the other string keys in the order of their creation.
OwnPropertyOrder(obj) ==
    LET all == [i \in 1..Len(obj) |-> i]
    IN AscendingIndices(obj, {i \in 1..Len(obj) : IsArrayIndex(obj[i].key)})
         \o SelectSeq(all, LAMBDA i : ~IsArrayIndex(obj[i].key))

ObjectKeys(obj) ==
    LET order == OwnPropertyOrder(obj)
    IN [i \in 1..Len(order) |-> obj[order[i]].key]

\* Fault variant: the values in creation order, whatever order the keys take.
ObjectValuesAsCreated(obj) == [i \in 1..Len(obj) |-> obj[i].value]

ObjectValues(obj) ==
    LET order == OwnPropertyOrder(obj)
    IN [i \in 1..Len(order) |-> obj[order[i]].value]

kConstructor == <<"c", "o", "n", "s", "t", "r", "u", "c", "t", "o", "r">>
kToString == <<"t", "o", "S", "t", "r", "i", "n", "g">>

\* Function.prototype.toString of the built-in Object constructor.
ObjectSource ==
    <<"f", "u", "n", "c", "t", "i", "o", "n", " ", "O", "b", "j", "e", "c", "t",
      "(", ")", " ", "{", " ", "[", "n", "a", "t", "i", "v", "e", " ", "c", "o",
      "d", "e", "]", " ", "}">>
ToStringSource ==
    <<"f", "u", "n", "c", "t", "i", "o", "n", " ", "t", "o", "S", "t", "r", "i",
      "n", "g", "(", ")", " ", "{", " ", "[", "n", "a", "t", "i", "v", "e", " ",
      "c", "o", "d", "e", "]", " ", "}">>

\* What an object literal inherits: the properties of Object.prototype.
ObjectPrototype ==
    <<Entry(kConstructor, Fun(ObjectSource)), Entry(kToString, Fun(ToStringSource))>>

\* obj[k]: the own property, else the inherited one, else undefined.
GetProperty(obj, k) ==
    IF HasOwnProperty(obj, k) THEN OwnProperty(obj, k)
    ELSE IF HasOwnProperty(ObjectPrototype, k) THEN OwnProperty(ObjectPrototype, k)
    ELSE Undefined

\* Array.prototype.join
RECURSIVE Join(_, _)
Join(parts, sep) ==
    IF Len(parts) = 0 THEN <<>>
    ELSE IF Len(parts) = 1 THEN parts[1]
    ELSE parts[1] \o sep \o Join(Tail(parts), sep)

----------------------------------------------------------------------------
(* sqlForPartialUpdate *)

NoResult == [kind |-> "none", error |-> "", setCols |-> <<>>, values |-> <<>>]
Throw(name) == [kind |-> "throw", error |-> name, setCols |-> <<>>, values |-> <<>>]
Return(clause, binds) == [kind |-> "return", error |-> "", setCols |-> clause, values |-> binds]

Quote == "\""
Separator == <<",", " ">>

\* jsToSql[colName] || colName, as the template literal renders it
ColumnName(table, colName) == ToString(LogicalOr(GetProperty(table, colName), Str(colName)))

\* Fault variant: the placeholder carries the 0-based index.
FragmentFromZero(table, colName, idx) ==
    <<Quote>> \o ColumnName(table, colName) \o <<Quote, "=", "$">> \o ToDecimal(idx)

\* `"${jsToSql[colName] || colName}"=$${idx + 1}` for the key at 0-based idx
Fragment(table, colName, idx) ==
    <<Quote>> \o ColumnName(table, colName) \o <<Quote, "=", "$">> \o ToDecimal(idx + 1)

\* Fault variant: no check for an empty request.
sqlForPartialUpdateNoGuard(data, table) ==
    LET keys == ObjectKeys(data)
        cols == [i \in 1..Len(keys) |-> Fragment(table, keys[i], i - 1)]
    IN Return(Join(cols, Separator), ObjectValues(data))

\* Fault variant: the value is written into the clause in place of a placeholder.
sqlForPartialUpdateInline(data, table) ==
    LET keys == ObjectKeys(data)
        vals == ObjectValues(data)
        cols == [i \in 1..Len(keys) |->
                    <<Quote>> \o ColumnName(table, keys[i]) \o <<Quote, "=">> \o ToString(vals[i])]
    IN IF Len(keys) = 0 THEN Throw("BadRequestError")
       ELSE Return(Join(cols, Separator), vals)

sqlForPartialUpdate(data, table) ==
    LET keys == ObjectKeys(data)
        cols == [i \in 1..Len(keys) |-> Fragment(table, keys[i], i - 1)]
    IN IF Len(keys) = 0 THEN Throw("BadRequestError")
       ELSE Return(Join(cols, Separator), ObjectValues(data))

----------------------------------------------------------------------------
(* The inputs the helper is applied to *)

kFirstName == <<"f", "i", "r", "s", "t", "N", "a", "m", "e">>
kAge == <<"a", "g", "e">>
kNumEmployees == <<"n", "u", "m", "E", "m", "p", "l", "o", "y", "e", "e", "s">>
kTwo == <<"2">>
kTen == <<"1", "0">>
Keys == {kFirstName, kAge, kNumEmployees, kTwo, kTen, kConstructor}

sAliya == <<"A", "l", "i", "y", "a">>
Values == {Str(sAliya), Num(32), Num(5)}

cFirstName == <<"f", "i", "r", "s", "t", "_", "n", "a", "m", "e">>
cNumEmployees == <<"n", "u", "m", "_", "e", "m", "p", "l", "o", "y", "e", "e", "s">>

\* The sequences of n entries over Keys and Values.
RECURSIVE ObjectsOfSize(_)
ObjectsOfSize(n) ==
    IF n = 0 THEN {<<>>}
    ELSE {Append(obj, Entry(k, v)) :
            obj \in ObjectsOfSize(n - 1), k \in Keys, v \in Values}

Requests ==
    {obj \in UNION {ObjectsOfSize(n) : n \in 0..MaxKeys} :
        \A i, j \in 1..Len(obj) : obj[i].key = obj[j].key => i = j}

\* Alias tables: firstName and numEmployees each absent, mapped to a column
\* name, or mapped to a falsy alias (the empty string, 0).
FirstNameAliases == {<<>>, <<Entry(kFirstName, Str(cFirstName))>>, <<Entry(kFirstName, Str(<<>>))>>}
NumEmployeesAliases ==
    {<<>>, <<Entry(kNumEmployees, Str(cNumEmployees))>>, <<Entry(kNumEmployees, Num(0))>>}
AliasTables == {a \o b : a \in FirstNameAliases, b \in NumEmployeesAliases}

Callers == {"c1", "c2"}

----------------------------------------------------------------------------
(* Calls of the helper *)

\* Fault variant: the placeholder index is kept across calls.
CallShared(c) ==
    /\ result[c].kind = "none"
    /\ LET earlier == Cardinality({d \in Callers : result[d].kind # "none"})
           keys == ObjectKeys(dataToUpdate)
           cols == [i \in 1..Len(keys) |-> Fragment(jsToSql, keys[i], earlier + i - 1)]
       IN result' = [result EXCEPT ![c] =
              IF Len(keys) = 0 THEN Throw("BadRequestError")
              ELSE Return(Join(cols, Separator), ObjectValues(dataToUpdate))]
    /\ UNCHANGED <<dataToUpdate, jsToSql>>
    /\ UNCHANGED routeVars

\* Fault variant: the call removes a property from the request it was given.
CallConsuming(c) ==
    /\ result[c].kind = "none"
    /\ result' = [result EXCEPT ![c] = sqlForPartialUpdate(dataToUpdate, jsToSql)]
    /\ dataToUpdate' = IF Len(dataToUpdate) = 0 THEN dataToUpdate ELSE Tail(dataToUpdate)
    /\ UNCHANGED jsToSql
    /\ UNCHANGED routeVars

\* Caller c calls sqlForPartialUpdate(dataToUpdate, jsToSql): the call runs to
\* completion (the function is synchronous) and writes to neither argument.
Call(c) ==
    /\ result[c].kind = "none"
    /\ result' = [result EXCEPT ![c] = sqlForPartialUpdate(dataToUpdate, jsToSql)]
    /\ UNCHANGED <<dataToUpdate, jsToSql>>
    /\ UNCHANGED routeVars

NoRequest == [route |-> "", admin |-> FALSE, valid |-> FALSE, minEmployees |-> Undefined, maxEmployees |-> Undefined]
NoResponse == [status |-> 0, body |-> ""]
NoError == [name |-> "", status |-> 0, via |-> ""]

Init ==
    /\ dataToUpdate \in Requests
    /\ jsToSql \in AliasTables
    /\ result = [c \in Callers |-> NoResult]
    /\ req = NoRequest
    /\ pc = "idle"
    /\ events = <<>>
    /\ res = NoResponse
    /\ err = NoError

Next == \E c \in Callers : Call(c)

Spec == Init /\ [][Next]_vars

----------------------------------------------------------------------------
(* Reading a clause back *)

FirstHit(s, pat) ==
    LET hits == {i \in 1..(Len(s) - Len(pat) + 1) : SubSeq(s, i, i + Len(pat) - 1) = pat}
    IN IF hits = {} THEN 0 ELSE CHOOSE i \in hits : \A j \in hits : i <= j

\* s.split(sep)
RECURSIVE SplitOn(_, _)
SplitOn(s, sep) ==
    LET i == FirstHit(s, sep)
    IN IF i = 0 THEN <<s>>
       ELSE <<SubSeq(s, 1, i - 1)>> \o SplitOn(SubSeq(s, i + Len(sep), Len(s)), sep)

DigitPrefix(s) ==
    LET stops == {i \in 1..Len(s) : ~IsDigit(s[i])}
    IN IF stops = {} THEN Len(s) ELSE (CHOOSE i \in stops : \A j \in stops : i <= j) - 1

\* The numbers of the $-placeholders of a clause, left to right ($ followed by
\* no digit reads as 0).
RECURSIVE Placeholders(_)
Placeholders(s) ==
    LET i == FirstHit(s, <<"$">>)
    IN IF i = 0 THEN <<>>
       ELSE LET rest == SubSeq(s, i + 1, Len(s))
                d == DigitPrefix(rest)
            IN <<DecimalValue(SubSeq(rest, 1, d))>>
                 \o Placeholders(SubSeq(rest, d + 1, Len(rest)))

EndsWith(s, suffix) ==
    Len(s) >= Len(suffix) /\ SubSeq(s, Len(s) - Len(suffix) + 1, Len(s)) = suffix

Done(c) == result[c].kind # "none"
Size == Len(dataToUpdate)
Permutations(n) == {f \in [1..n -> 1..n] : \A i, j \in 1..n : f[i] = f[j] => i = j}

\* The requests with the keys of data, created in the same order, and any values.
SameKeys(data) ==
    {[i \in 1..Len(data) |-> Entry(data[i].key, f[i])] : f \in [1..Len(data) -> Values]}

----------------------------------------------------------------------------
(* Claims about sqlForPartialUpdate *)

\* C1: a call with an update request that has no keys throws BadRequestError,
\* whatever the alias table, and returns no setCols/values fragment.
C1_EmptyRequestIsBadRequest ==
    \A c \in Callers :
        (Done(c) /\ Size = 0) =>
            /\ result[c].kind = "throw"
            /\ result[c].error = "BadRequestError"
            /\ result[c].setCols = <<>>
            /\ result[c].values = <<>>

C1_Witness ==
    \E c \in Callers : Done(c) /\ Size = 0 /\ Len(jsToSql) > 0

\* C2: a request with n > 0 keys returns n fragments separated by ", " and n
\* bind values, and fragment i is the one built from the key whose value is
\* bind value i.
C2_CountsAndAlignment ==
    \A c \in Callers :
        (Done(c) /\ Size > 0) =>
            LET frags == SplitOn(result[c].setCols, Separator)
                vals == result[c].values
            IN /\ result[c].kind = "return"
               /\ Len(frags) = Size
               /\ Len(vals) = Size
               /\ \E at \in Permutations(Size) :
                     \A i \in 1..Size :
                        /\ frags[i] = Fragment(jsToSql, dataToUpdate[at[i]].key, i - 1)
                        /\ vals[i] = dataToUpdate[at[i]].value

C2_Witness ==
    \E c \in Callers :
        /\ Done(c)
        /\ Size = 2
        /\ jsToSql = <<>>
        /\ dataToUpdate[1].value # dataToUpdate[2].value
        /\ Len(result[c].values) = 2

\* The column name the claim C3 expects for key k: the alias when the alias
\* table has k with a non-empty (truthy) alias, else k itself.
ExpectedColumn(k) ==
    IF HasOwnProperty(jsToSql, k) /\ ToBoolean(OwnProperty(jsToSql, k))
    THEN ToString(OwnProperty(jsToSql, k))
    ELSE k

\* C3: the fragment of a key uses the alias when the alias table has the key
\* with a non-empty alias, and the key itself, verbatim, when the key is absent
\* from the alias table or mapped to a falsy alias.
C3_AliasOrVerbatim ==
    \A c \in Callers :
        (Done(c) /\ Size > 0) =>
            LET frags == SplitOn(result[c].setCols, Separator)
                keys == ObjectKeys(dataToUpdate)
            IN /\ Len(frags) = Size
               /\ \A i \in 1..Size :
                     frags[i] = <<Quote>> \o ExpectedColumn(keys[i])
                                  \o <<Quote, "=", "$">> \o ToDecimal(i)
               /\ (dataToUpdate = <<Entry(kNumEmployees, Num(5))>> /\ jsToSql = <<>>) =>
                     /\ result[c].setCols =
                          <<Quote>> \o kNumEmployees \o <<Quote, "=", "$", "1">>
                     /\ result[c].values = <<Num(5)>>

\* "first_name"=$1, "age"=$2
ExampleClause ==
    <<Quote>> \o cFirstName \o <<Quote, "=", "$", "1", ",", " ">>
      \o <<Quote>> \o kAge \o <<Quote, "=", "$", "2">>
ExampleRequest == <<Entry(kFirstName, Str(sAliya)), Entry(kAge, Num(32))>>
ExampleTable == <<Entry(kFirstName, Str(cFirstName))>>

C5_CreationOrder ==
    \A c \in Callers :
        (Done(c) /\ Size > 0) =>
            LET frags == SplitOn(result[c].setCols, Separator)
            IN /\ Len(frags) = Size
               /\ Len(result[c].values) = Size
               /\ \A i \in 1..Size :
                     /\ frags[i] = Fragment(jsToSql, dataToUpdate[i].key, i - 1)
                     /\ result[c].values[i] = dataToUpdate[i].value

\* Key a comes before key b in the enumeration of an object's own keys.
EnumeratedBefore(data, a, b) ==
    LET ia == IsArrayIndex(data[a].key)
        ib == IsArrayIndex(data[b].key)
    IN \/ ia /\ ~ib
       \/ ia /\ ib /\ DecimalValue(data[a].key) < DecimalValue(data[b].key)
       \/ ~ia /\ ~ib /\ a < b

\* C5 (amended): fragments and bind values come in the order Object.keys
\* enumerates the request: the keys that are array indices ("2", "10") first,
\* in ascending numeric order, then every other key in the order of creation.
C5_OwnKeyOrder ==
    \A c \in Callers :
        (Done(c) /\ Size > 0) =>
            LET frags == SplitOn(result[c].setCols, Separator)
            IN /\ Len(frags) = Size
               /\ Len(result[c].values) = Size
               /\ \E pos \in Permutations(Size) :
                     /\ \A a \in 1..Size :
                           /\ frags[pos[a]] = Fragment(jsToSql, dataToUpdate[a].key, pos[a] - 1)
                           /\ result[c].values[pos[a]] = dataToUpdate[a].value
                     /\ \A a, b \in 1..Size :
                           EnumeratedBefore(dataToUpdate, a, b) => pos[a] < pos[b]

C5_Witness ==
    \E c \in Callers :
        /\ Done(c)
        /\ Size = 2
        /\ dataToUpdate[1].key = kAge
        /\ dataToUpdate[2].key = kTwo
        /\ dataToUpdate[1].value # dataToUpdate[2].value
        /\ result[c].values = <<dataToUpdate[2].value, dataToUpdate[1].value>>

C7_NoSideEffects ==
    [][/\ dataToUpdate' = dataToUpdate
       /\ jsToSql' = jsToSql
       /\ \A c \in Callers :
             result'[c] # result[c] =>
                result'[c] = sqlForPartialUpdate(dataToUpdate, jsToSql)]_vars

C7_Witness ==
    /\ \A c \in Callers : Done(c)
    /\ Size > 0
    /\ Len(jsToSql) > 0
    /\ \A c \in Callers : result[c] = sqlForPartialUpdate(dataToUpdate, jsToSql)

\* C8: the clause does not depend on the values (every request with the same
\* keys in the same order gives the same setCols under the same alias table),
\* and bind value i is the value of the i-th enumerated key, type and all.
C8_ValuesNeverInterpolated ==
    \A c \in Callers :
        (Done(c) /\ Size > 0) =>
            LET keys == ObjectKeys(dataToUpdate)
            IN /\ \A other \in SameKeys(dataToUpdate) :
                     sqlForPartialUpdate(other, jsToSql).setCols = result[c].setCols
               /\ Len(result[c].values) = Size
               /\ \A i \in 1..Size :
                     result[c].values[i] = OwnProperty(dataToUpdate, keys[i])

C8_Witness ==
    \E c \in Callers :
        /\ Done(c)
        /\ Size = 2
        /\ dataToUpdate[1].value = Str(sAliya)
        /\ dataToUpdate[2].value = Num(32)
        /\ result[c].values = <<Str(sAliya), Num(32)>>
        /\ \E other \in SameKeys(dataToUpdate) : other # dataToUpdate

----------------------------------------------------------------------------
(* routes/companies.js *)

\* Number(v) for the values a query string holds: undefined, or a string.
ToNumber(v) ==
    CASE v.t = "number" -> v
      [] v.t = "string" ->
            IF Len(v.s) = 0 THEN Num(0)
            ELSE IF AllDigits(v.s) THEN Num(DecimalValue(v.s))
            ELSE NaN
      [] OTHER -> NaN

\* a > b: both operands go through ToNumber; a NaN on either side gives false.
GreaterThan(a, b) ==
    LET x == ToNumber(a)
        y == ToNumber(b)
    IN x.t = "number" /\ y.t = "number" /\ x.n > y.n

Routes == {"POST /", "GET /", "PATCH /:handle", "DELETE /:handle"}

\* Fault variant: no route is registered with a middleware.
MiddlewareNone(route) == <<>>

\* The middleware each route is registered with, ahead of its handler.
Middleware(route) ==
    CASE route = "POST /" -> <<"ensureAdmin">>
      [] route = "PATCH /:handle" -> <<"ensureAdmin">>
      [] route = "DELETE /:handle" -> <<"ensureAdmin">>
      [] OTHER -> <<>>

ModelOps == {"Company.create", "Company.findAll", "Company.update", "Company.remove"}

QueryValues == {Undefined, Str(kTwo), Str(kTen), Str(kAge)}

\* A request: its route, whether its user is an admin, whether its body (its
\* query, for GET /) validates against the route's JSON schema, and the two
\* employee bounds of its query string.
HttpRequests ==
    [route : Routes, admin : BOOLEAN, valid : BOOLEAN,
     minEmployees : QueryValues, maxEmployees : QueryValues]

\* What becomes of the rejected promise of an async handler that throws outside
\* its try block: the Express 4 router drops the promise (an unhandled
\* rejection: next is not called, nothing is sent), the Express 5 router
\* passes the reason to next.
RejectionOutcomes == {"unhandledRejection", "next"}

\* An error: its class, the status the handler gives it (0 when the error class
\* sets it itself), and how it leaves the handler.
Failure(name, status, via) == [name |-> name, status |-> status, via |-> via]

\* The router matches the request and starts the route's chain.
Dispatch ==
    /\ pc = "received"
    /\ pc' = IF Middleware(req.route) = <<>> THEN "handler" ELSE Middleware(req.route)[1]
    /\ UNCHANGED <<req, events, res, err>>
    /\ UNCHANGED helperVars

\* ensureAdmin: passes an admin's request on, ends any other with an error.
EnsureAdmin ==
    /\ pc = "ensureAdmin"
    /\ IF req.admin
       THEN /\ events' = Append(events, "ensureAdmin:next")
            /\ pc' = "handler"
            /\ err' = err
       ELSE /\ events' = Append(events, "ensureAdmin:reject")
            /\ pc' = "done"
            /\ err' = Failure("UnauthorizedError", 0, "next")
    /\ UNCHANGED <<req, res>>
    /\ UNCHANGED helperVars

\* The part of a try block from the schema validation to the await: an
\* invalid input throws BadRequestError, which the catch block passes to next;
\* a valid one reaches the call of the model operation op.
ValidateThenCall(op) ==
    IF ~req.valid
    THEN /\ events' = Append(events, "validate:invalid")
         /\ err' = Failure("BadRequestError", 0, "next")
         /\ pc' = "done"
    ELSE /\ events' = events \o <<"validate:valid", op>>
         /\ err' = err
         /\ pc' = "awaiting"

\* After the await: the model's promise fulfils and the response is sent, or
\* it rejects and the catch block passes the error to next.
Settle(status, body) ==
    \E fulfilled \in BOOLEAN :
       IF fulfilled
       THEN /\ res' = [status |-> status, body |-> body]
            /\ err' = err
            /\ events' = Append(events, "res.json")
       ELSE /\ res' = res
            /\ err' = Failure("ModelError", 0, "next")
            /\ events' = Append(events, "next(err)")

PostHandler ==
    /\ pc = "handler"
    /\ req.route = "POST /"
    /\ ValidateThenCall("Company.create")
    /\ UNCHANGED <<req, res>>
    /\ UNCHANGED helperVars

PostSettled ==
    /\ pc = "awaiting"
    /\ req.route = "POST /"
    /\ Settle(201, "company")
    /\ pc' = "done"
    /\ UNCHANGED req
    /\ UNCHANGED helperVars

PatchHandler ==
    /\ pc = "handler"
    /\ req.route = "PATCH /:handle"
    /\ ValidateThenCall("Company.update")
    /\ UNCHANGED <<req, res>>
    /\ UNCHANGED helperVars

PatchSettled ==
    /\ pc = "awaiting"
    /\ req.route = "PATCH /:handle"
    /\ Settle(200, "company")
    /\ pc' = "done"
    /\ UNCHANGED req
    /\ UNCHANGED helperVars

\* DELETE /:handle has no schema: the try block calls Company.remove at once.
DeleteHandler ==
    /\ pc = "handler"
    /\ req.route = "DELETE /:handle"
    /\ events' = Append(events, "Company.remove")
    /\ pc' = "awaiting"
    /\ UNCHANGED <<req, res, err>>
    /\ UNCHANGED helperVars

DeleteSettled ==
    /\ pc = "awaiting"
    /\ req.route = "DELETE /:handle"
    /\ Settle(200, "deleted")
    /\ pc' = "done"
    /\ UNCHANGED req
    /\ UNCHANGED helperVars

\* GET /: the two bounds are converted in place; min > max throws before the
\* try block is entered, so the async function's promise rejects; otherwise
\* the try block validates the query and calls Company.findAll.
GetHandler ==
    /\ pc = "handler"
    /\ req.route = "GET /"
    /\ LET min == IF req.minEmployees # Undefined THEN ToNumber(req.minEmployees) ELSE Undefined
           max == IF req.maxEmployees # Undefined THEN ToNumber(req.maxEmployees) ELSE Undefined
       IN /\ req' = [req EXCEPT !.minEmployees = min, !.maxEmployees = max]
          /\ IF GreaterThan(min, max)
             THEN /\ \E outcome \in RejectionOutcomes :
                        err' = Failure("ExpressError", 400, outcome)
                  /\ events' = Append(events, "throw")
                  /\ pc' = "done"
             ELSE ValidateThenCall("Company.findAll")
    /\ UNCHANGED res
    /\ UNCHANGED helperVars

GetSettled ==
    /\ pc = "awaiting"
    /\ req.route = "GET /"
    /\ Settle(200, "companies")
    /\ pc' = "done"
    /\ UNCHANGED req
    /\ UNCHANGED helperVars

RoutesInit ==
    /\ dataToUpdate = <<>>
    /\ jsToSql = <<>>
    /\ result = [c \in Callers |-> NoResult]
    /\ req \in HttpRequests
    /\ pc = "received"
    /\ events = <<>>
    /\ res = NoResponse
    /\ err = NoError

RoutesNext ==
    \/ Dispatch
    \/ EnsureAdmin
    \/ PostHandler
    \/ PostSettled
    \/ GetHandler
    \/ GetSettled
    \/ PatchHandler
    \/ PatchSettled
    \/ DeleteHandler
    \/ DeleteSettled

SpecRoutes == RoutesInit /\ [][RoutesNext]_vars

----------------------------------------------------------------------------
(* Claims about the company routes *)

Happened(e) == \E i \in 1..Len(events) : events[i] = e

\* C9: a GET / request whose minEmployees exceeds its maxEmployees (both
\* given, as numbers) ends with a 400 error handed to next, without a call of
\* Company.findAll and without a response.
C9_InvertedRangeReachesNext ==
    (/\ req.route = "GET /"
     /\ pc = "done"
     /\ req.minEmployees # Undefined
     /\ req.maxEmployees # Undefined
     /\ GreaterThan(req.minEmployees, req.maxEmployees)) =>
        /\ err = Failure("ExpressError", 400, "next")
        /\ ~Happened("Company.findAll")
        /\ res = NoResponse

\* C10: on POST /, PATCH /:handle and DELETE /:handle the model operation is
\* invoked only after ensureAdmin passed the request on and, for POST and
\* PATCH, after the body validated; a body that fails validation ends as a
\* BadRequestError passed to next, with no model call and no response.
C10_ModelCallsGuarded ==
    req.route \in {"POST /", "PATCH /:handle", "DELETE /:handle"} =>
        /\ \A i \in 1..Len(events) :
              events[i] \in ModelOps =>
                 /\ \E j \in 1..(i - 1) : events[j] = "ensureAdmin:next"
                 /\ req.route # "DELETE /:handle" =>
                       \E j \in 1..(i - 1) : events[j] = "validate:valid"
        /\ Happened("validate:invalid") =>
              /\ pc = "done"
              /\ err = Failure("BadRequestError", 0, "next")
              /\ \A op \in ModelOps : ~Happened(op)
              /\ res = NoResponse
        /\ res # NoResponse => \E op \in ModelOps : Happened(op)

C10_Witness ==
    /\ req.route = "PATCH /:handle"
    /\ pc = "done"
    /\ events = <<"ensureAdmin:next", "validate:valid", "Company.update", "res.json">>
    /\ res = [status |-> 200, body |-> "company"]

=============================================================================
